---- MODULE Spec2Model ----
(***************************************************************************)
(* Model of two parts of the Bitcoin node repository:                      *)
(*   - node/src/block_saver.rs: download_blocks, the worker thread that    *)
(*     drains the block channel into the UTXO index and the block ledger,  *)
(*     both behind std::sync::Mutex, next to reader threads;               *)
(*   - app/src/transactions/create_transactions.rs: the address codec,     *)
(*     the UTXO selector and create_transaction.                           *)
(* Spec / FairSpec run the ingestion pipeline, TxSpec runs one call of     *)
(* create_transaction, CodecSpec runs decode_base58 on address bytes.      *)
(***************************************************************************)
EXTENDS Integers, Sequences, FiniteSets, TLC

VARIABLES
    \* ---- ingestion pipeline (block_saver.rs) ----
    chan,          \* blocks buffered in the mpsc channel, oldest first
    sent,          \* history: every block the producer sent, in order
    senderAlive,   \* TRUE while a Sender exists (channel not closed)
    wpc,           \* position of the download_blocks worker
    block,         \* the block bound by `while let Ok(block)`
    owner,         \* holder of each mutex: "utxo" and "blockchain"
    poisoned,      \* poison flag of each mutex
    utxo,          \* UnspentTx: the set of unspent outpoints
    blockchain,    \* BlockChain: the ledger, a sequence of blocks
    progress,      \* the block counts printed as progress lines
    skipped,       \* history: blocks whose iteration met a failed lock()
    applied,       \* history: blocks passed to UnspentTx::update, in order
    rpc,           \* position of every reader thread
    utxo0,         \* the UTXO index handed to download_blocks
    chain0,        \* the ledger handed to download_blocks
    \* ---- decode_base58 (create_transactions.rs) ----
    cpc,           \* "off", "call", "returned" or "panicked"
    address,       \* the address bytes handed to decode_base58
    decoded,       \* the Vec<u8> decode_base58 returned
    \* ---- create_transaction (create_transactions.rs) ----
    tpc,           \* position inside create_transaction
    call,          \* its arguments: targets, utxo, private_key, fee, p2wpkh
    pk_script,     \* the sender's locking script
    txout_list,    \* the outputs built so far
    total_amount,  \* fee plus the target amounts
    txin_list,     \* the inputs create_txin_list returned
    amount_list,   \* the amounts create_txin_list returned
    transaction,   \* the Transaction under construction
    result         \* what create_transaction returned

pipeVars == <<chan, sent, senderAlive, wpc, block, owner, poisoned, utxo,
              blockchain, progress, skipped, applied, rpc, utxo0, chain0>>

codecVars == <<cpc, address, decoded>>

txVars == <<tpc, call, pk_script, txout_list, total_amount, txin_list,
            amount_list, transaction, result>>

vars == <<pipeVars, codecVars, txVars>>

----------------------------------------------------------------------------
(* Bounds of the pipeline model *)

MaxBlocks == 3
NumReaders == 2

Readers == 1..NumReaders

(* The n-th block the producer sends spends the outpoint block n - 1 created
   and creates outpoint n, which makes update sensitive to order, to a
   repeated block and to a missing one. *)
MkBlock(n) == [seq |-> n, spent |-> {n - 1}, created |-> {n}]

NoBlock == [seq |-> -1, spent |-> {}, created |-> {}]
GenesisBlock == [seq |-> 0, spent |-> {}, created |-> {0}]
NoOwner == 0
Worker == NumReaders + 1

Locks == {"utxo", "blockchain"}

ReportInterval == 1000

Range(s) == { s[i] : i \in DOMAIN s }

----------------------------------------------------------------------------
(* block_mod, outside src/: UnspentTx::update, BlockChain::add, cant_blocks *)

update(u, b) == (u \ b.spent) \cup b.created

add(chain, b) == Append(chain, b)

cant_blocks(chain) == Len(chain)

RECURSIVE ApplyAll(_, _)
ApplyAll(u, bs) ==
    IF bs = <<>> THEN u ELSE ApplyAll(update(u, Head(bs)), Tail(bs))

----------------------------------------------------------------------------
(* The producer: the network layer holding the Sender<Block> *)

Send ==
    /\ senderAlive
    /\ Len(sent) < MaxBlocks
    /\ chan' = Append(chan, MkBlock(Len(sent) + 1))
    /\ sent' = Append(sent, MkBlock(Len(sent) + 1))
    /\ UNCHANGED <<senderAlive, wpc, block, owner, poisoned, utxo, blockchain,
                   progress, skipped, applied, rpc, utxo0, chain0, codecVars, txVars>>

Close ==
    /\ senderAlive
    /\ senderAlive' = FALSE
    /\ UNCHANGED <<chan, sent, wpc, block, owner, poisoned, utxo, blockchain,
                   progress, skipped, applied, rpc, utxo0, chain0, codecVars, txVars>>

----------------------------------------------------------------------------
(* download_blocks: the worker thread, one action per step of the loop body *)

\* mutant: the ledger mutex is locked first, the UTXO mutex inside it
LockOrder_Reversed == <<"blockchain", "utxo">>

\* the mutexes in the order the loop body locks them: utxo.lock() encloses
\* blockchain.lock()
LockOrder == <<"utxo", "blockchain">>

\* rx.recv() returns Ok(block): a block is buffered
WorkerRecvOk ==
    /\ wpc = "recv"
    /\ chan # <<>>
    /\ block' = Head(chan)
    /\ chan' = Tail(chan)
    /\ wpc' = "lock_outer"
    /\ UNCHANGED <<sent, senderAlive, owner, poisoned, utxo, blockchain,
                   progress, skipped, applied, rpc, utxo0, chain0, codecVars, txVars>>

\* mutant: the loop ends as soon as the buffer is empty (a try_recv)
WorkerRecvErr_OnEmpty ==
    /\ wpc = "recv"
    /\ chan = <<>>
    /\ wpc' = "done"
    /\ UNCHANGED <<chan, sent, senderAlive, block, owner, poisoned, utxo,
                   blockchain, progress, skipped, applied, rpc, utxo0, chain0, codecVars, txVars>>

\* rx.recv() returns Err: every Sender dropped and the buffer is empty
WorkerRecvErr ==
    /\ wpc = "recv"
    /\ chan = <<>>
    /\ ~senderAlive
    /\ wpc' = "done"
    /\ UNCHANGED <<chan, sent, senderAlive, block, owner, poisoned, utxo,
                   blockchain, progress, skipped, applied, rpc, utxo0, chain0, codecVars, txVars>>

\* if let Ok(mut locked_utxo) = utxo.lock(): the guard is taken
WorkerLockUtxoOk ==
    /\ wpc = "lock_outer"
    /\ owner[LockOrder[1]] = NoOwner
    /\ ~poisoned[LockOrder[1]]
    /\ owner' = [owner EXCEPT ![LockOrder[1]] = Worker]
    /\ wpc' = "lock_inner"
    /\ UNCHANGED <<chan, sent, senderAlive, block, poisoned, utxo, blockchain,
                   progress, skipped, applied, rpc, utxo0, chain0, codecVars, txVars>>

\* utxo.lock() returns Err(PoisonError): the if-let body is skipped, the
\* guard inside the error is dropped, the loop goes back to recv
WorkerLockUtxoErr ==
    /\ wpc = "lock_outer"
    /\ owner[LockOrder[1]] = NoOwner
    /\ poisoned[LockOrder[1]]
    /\ skipped' = Append(skipped, block)
    /\ block' = NoBlock
    /\ wpc' = "recv"
    /\ UNCHANGED <<chan, sent, senderAlive, owner, poisoned, utxo, blockchain,
                   progress, applied, rpc, utxo0, chain0, codecVars, txVars>>

\* if let Ok(mut locked_blockchain) = blockchain.lock(): the guard is taken
WorkerLockBlockchainOk ==
    /\ wpc = "lock_inner"
    /\ owner[LockOrder[2]] = NoOwner
    /\ ~poisoned[LockOrder[2]]
    /\ owner' = [owner EXCEPT ![LockOrder[2]] = Worker]
    /\ wpc' = "update"
    /\ UNCHANGED <<chan, sent, senderAlive, block, poisoned, utxo, blockchain,
                   progress, skipped, applied, rpc, utxo0, chain0, codecVars, txVars>>

\* mutant: update is called under the UTXO guard alone, before the ledger
\* lock is known to be Ok
WorkerLockBlockchainErr_Applied ==
    /\ wpc = "lock_inner"
    /\ owner[LockOrder[2]] = NoOwner
    /\ poisoned[LockOrder[2]]
    /\ utxo' = update(utxo, block)
    /\ applied' = Append(applied, block)
    /\ skipped' = Append(skipped, block)
    /\ wpc' = "drop_outer"
    /\ UNCHANGED <<chan, sent, senderAlive, block, owner, poisoned,
                   blockchain, progress, rpc, utxo0, chain0, codecVars, txVars>>

\* blockchain.lock() returns Err(PoisonError): the inner body is skipped
WorkerLockBlockchainErr ==
    /\ wpc = "lock_inner"
    /\ owner[LockOrder[2]] = NoOwner
    /\ poisoned[LockOrder[2]]
    /\ skipped' = Append(skipped, block)
    /\ wpc' = "drop_outer"
    /\ UNCHANGED <<chan, sent, senderAlive, block, owner, poisoned, utxo,
                   blockchain, progress, applied, rpc, utxo0, chain0, codecVars, txVars>>

\* mutant: the call of update is missing
WorkerUpdate_NoUpdate ==
    /\ wpc = "update"
    /\ wpc' = "add"
    /\ UNCHANGED <<chan, sent, senderAlive, block, owner, poisoned, utxo,
                   blockchain, progress, skipped, applied, rpc, utxo0, chain0, codecVars, txVars>>

\* locked_utxo.update(&block)
WorkerUpdate ==
    /\ wpc = "update"
    /\ utxo' = update(utxo, block)
    /\ applied' = Append(applied, block)
    /\ wpc' = "add"
    /\ UNCHANGED <<chan, sent, senderAlive, block, owner, poisoned, blockchain,
                   progress, skipped, rpc, utxo0, chain0, codecVars, txVars>>

\* locked_blockchain.add(block); the progress line every 1000 blocks
WorkerAdd ==
    /\ wpc = "add"
    /\ blockchain' = add(blockchain, block)
    /\ progress' = IF cant_blocks(blockchain') % ReportInterval = 0
                   THEN Append(progress, cant_blocks(blockchain'))
                   ELSE progress
    /\ wpc' = "drop_inner"
    /\ UNCHANGED <<chan, sent, senderAlive, block, owner, poisoned, utxo,
                   skipped, applied, rpc, utxo0, chain0, codecVars, txVars>>

\* drop(locked_blockchain)
WorkerDropBlockchain ==
    /\ wpc = "drop_inner"
    /\ owner' = [owner EXCEPT ![LockOrder[2]] = NoOwner]
    /\ wpc' = "drop_outer"
    /\ UNCHANGED <<chan, sent, senderAlive, block, poisoned, utxo, blockchain,
                   progress, skipped, applied, rpc, utxo0, chain0, codecVars, txVars>>

\* drop(locked_utxo), then the next iteration
WorkerDropUtxo ==
    /\ wpc = "drop_outer"
    /\ owner' = [owner EXCEPT ![LockOrder[1]] = NoOwner]
    /\ block' = NoBlock
    /\ wpc' = "recv"
    /\ UNCHANGED <<chan, sent, senderAlive, poisoned, utxo, blockchain,
                   progress, skipped, applied, rpc, utxo0, chain0, codecVars, txVars>>

WorkerLock ==
    \/ WorkerLockUtxoOk
    \/ WorkerLockUtxoErr
    \/ WorkerLockBlockchainOk
    \/ WorkerLockBlockchainErr

WorkerStep ==
    \/ WorkerRecvOk
    \/ WorkerRecvErr
    \/ WorkerUpdate
    \/ WorkerAdd
    \/ WorkerDropBlockchain
    \/ WorkerDropUtxo

WorkerNext == WorkerLock \/ WorkerStep

----------------------------------------------------------------------------
(* Reader threads (wallet queries): they take the UTXO lock, the ledger
   lock, or both in the order UTXO then ledger, read, and release.  A reader
   that panics while holding a guard poisons that mutex (std::sync::Mutex). *)

ReaderLockUtxoOnly(r) ==
    /\ rpc[r] = "idle"
    /\ owner["utxo"] = NoOwner
    /\ owner' = [owner EXCEPT !["utxo"] = r]
    /\ rpc' = [rpc EXCEPT ![r] = "hold_utxo"]
    /\ UNCHANGED <<chan, sent, senderAlive, wpc, block, poisoned, utxo,
                   blockchain, progress, skipped, applied, utxo0, chain0, codecVars, txVars>>

ReaderLockLedgerOnly(r) ==
    /\ rpc[r] = "idle"
    /\ owner["blockchain"] = NoOwner
    /\ owner' = [owner EXCEPT !["blockchain"] = r]
    /\ rpc' = [rpc EXCEPT ![r] = "hold_ledger"]
    /\ UNCHANGED <<chan, sent, senderAlive, wpc, block, poisoned, utxo,
                   blockchain, progress, skipped, applied, utxo0, chain0, codecVars, txVars>>

ReaderLockBothFirst(r) ==
    /\ rpc[r] = "idle"
    /\ owner["utxo"] = NoOwner
    /\ owner' = [owner EXCEPT !["utxo"] = r]
    /\ rpc' = [rpc EXCEPT ![r] = "hold_utxo_want_ledger"]
    /\ UNCHANGED <<chan, sent, senderAlive, wpc, block, poisoned, utxo,
                   blockchain, progress, skipped, applied, utxo0, chain0, codecVars, txVars>>

ReaderLockBothSecond(r) ==
    /\ rpc[r] = "hold_utxo_want_ledger"
    /\ owner["blockchain"] = NoOwner
    /\ owner' = [owner EXCEPT !["blockchain"] = r]
    /\ rpc' = [rpc EXCEPT ![r] = "hold_both"]
    /\ UNCHANGED <<chan, sent, senderAlive, wpc, block, poisoned, utxo,
                   blockchain, progress, skipped, applied, utxo0, chain0, codecVars, txVars>>

ReaderUnlockLedger(r) ==
    /\ rpc[r] \in {"hold_ledger", "hold_both"}
    /\ owner' = [owner EXCEPT !["blockchain"] = NoOwner]
    /\ rpc' = [rpc EXCEPT ![r] = IF rpc[r] = "hold_both" THEN "hold_utxo" ELSE "idle"]
    /\ UNCHANGED <<chan, sent, senderAlive, wpc, block, poisoned, utxo,
                   blockchain, progress, skipped, applied, utxo0, chain0, codecVars, txVars>>

ReaderUnlockUtxo(r) ==
    /\ rpc[r] = "hold_utxo"
    /\ owner' = [owner EXCEPT !["utxo"] = NoOwner]
    /\ rpc' = [rpc EXCEPT ![r] = "idle"]
    /\ UNCHANGED <<chan, sent, senderAlive, wpc, block, poisoned, utxo,
                   blockchain, progress, skipped, applied, utxo0, chain0, codecVars, txVars>>

\* a panic unwinds the reader: every guard it holds is dropped while
\* panicking, which poisons the mutex and releases it
ReaderPanic(r) ==
    /\ rpc[r] \in {"hold_utxo", "hold_ledger", "hold_utxo_want_ledger", "hold_both"}
    /\ owner' = [l \in Locks |-> IF owner[l] = r THEN NoOwner ELSE owner[l]]
    /\ poisoned' = [l \in Locks |-> poisoned[l] \/ owner[l] = r]
    /\ rpc' = [rpc EXCEPT ![r] = "dead"]
    /\ UNCHANGED <<chan, sent, senderAlive, wpc, block, utxo, blockchain,
                   progress, skipped, applied, utxo0, chain0, codecVars, txVars>>

ReaderAcquire(r) ==
    \/ ReaderLockUtxoOnly(r)
    \/ ReaderLockLedgerOnly(r)
    \/ ReaderLockBothFirst(r)
    \/ ReaderLockBothSecond(r)

ReaderRelease(r) ==
    \/ ReaderUnlockLedger(r)
    \/ ReaderUnlockUtxo(r)

ReaderNext(r) == ReaderAcquire(r) \/ ReaderRelease(r) \/ ReaderPanic(r)

----------------------------------------------------------------------------
(* Bytes, and the bs58 crate's codec as address_from_pubkey and
   decode_base58 call it (no check: plain Base58, no checksum test) *)

Byte == 0..255

RECURSIVE Reverse(_)
Reverse(s) == IF s = <<>> THEN <<>> ELSE Append(Reverse(Tail(s)), Head(s))

RECURSIVE Repeat(_, _)
Repeat(x, n) == IF n <= 0 THEN <<>> ELSE <<x>> \o Repeat(x, n - 1)

RECURSIVE LeadingCount(_, _)
LeadingCount(s, x) ==
    IF s = <<>> \/ Head(s) # x THEN 0 ELSE 1 + LeadingCount(Tail(s), x)

\* the Bitcoin alphabet, as ASCII codes
Base58Alphabet ==
    <<49, 50, 51, 52, 53, 54, 55, 56, 57, 65, 66, 67, 68, 69, 70, 71, 72,
    74, 75, 76, 77, 78, 80, 81, 82, 83, 84, 85, 86, 87, 88, 89, 90, 97, 98,
    99, 100, 101, 102, 103, 104, 105, 106, 107, 109, 110, 111, 112, 113,
    114, 115, 116, 117, 118, 119, 120, 121, 122>>

\* the digit of every byte value, -1 for a character outside the alphabet
Base58DigitTable ==
    [c \in Byte |->
        IF \E i \in DOMAIN Base58Alphabet : Base58Alphabet[i] = c
        THEN (CHOOSE i \in DOMAIN Base58Alphabet : Base58Alphabet[i] = c) - 1
        ELSE -1]

Base58Digit(c) == Base58DigitTable[c]

\* little-endian number times `radix` plus carry, in base `base`
RECURSIVE MulAdd(_, _, _, _)
MulAdd(le, radix, base, carry) ==
    IF le = <<>>
    THEN IF carry = 0 THEN <<>>
         ELSE <<carry % base>> \o MulAdd(<<>>, radix, base, carry \div base)
    ELSE LET v == Head(le) * radix + carry
         IN <<v % base>> \o MulAdd(Tail(le), radix, base, v \div base)

RECURSIVE DecodeDigits(_, _)
DecodeDigits(text, le) ==
    IF text = <<>> THEN le
    ELSE DecodeDigits(Tail(text), MulAdd(le, 58, 256, Base58Digit(Head(text))))

\* bs58::decode(text).into_vec()
bs58_decode(text) ==
    IF \E i \in DOMAIN text : Base58Digit(text[i]) < 0
    THEN [ok |-> FALSE, bytes |-> <<>>]
    ELSE [ok |-> TRUE,
          bytes |-> Repeat(0, LeadingCount(text, Base58Alphabet[1]))
                    \o Reverse(DecodeDigits(text, <<>>))]

RECURSIVE EncodeDigits(_, _)
EncodeDigits(bytes, le) ==
    IF bytes = <<>> THEN le
    ELSE EncodeDigits(Tail(bytes), MulAdd(le, 256, 58, Head(bytes)))

\* bs58::encode(bytes).into_vec()
bs58_encode(bytes) ==
    LET digits == Repeat(0, LeadingCount(bytes, 0))
                  \o Reverse(EncodeDigits(bytes, <<>>))
    IN [i \in DOMAIN digits |-> Base58Alphabet[digits[i] + 1]]

----------------------------------------------------------------------------
(* The hash functions and the witness-program codec, on the inputs the
   models use: the values the repository's tests name *)

\* compressed public key of the secp256k1 generator (secret key 1)
PubKeyG ==
    <<2, 121, 190, 102, 126, 249, 220, 187, 172, 85, 160, 98, 149, 206, 135,
    11, 7, 2, 155, 252, 219, 45, 206, 40, 217, 89, 242, 129, 91, 22, 248,
    23, 152>>

Hash160G ==
    <<117, 30, 118, 232, 25, 145, 150, 212, 84, 148, 28, 69, 209, 179, 163,
    35, 241, 67, 59, 214>>

\* hash160::Hash::hash(public_key)
Hash160(public_key) == IF public_key = PubKeyG THEN Hash160G ELSE <<>>

\* the testnet addresses of the tests, with their 25-byte payloads
AddrBook == 
    <<109, 122, 120, 53, 89, 104, 65, 72, 57, 107, 78, 72, 116, 99, 78, 52,
    56, 49, 117, 54, 87, 107, 106, 101, 72, 106, 89, 116, 86, 101, 75, 86,
    104, 50>>
AddrBookPayload ==
    <<111, 213, 42, 215, 202, 155, 61, 9, 106, 56, 231, 82, 194, 1, 142,
    111, 188, 64, 205, 242, 111, 75, 231, 146, 225>>
AddrChange == 
    <<110, 49, 109, 68, 117, 53, 90, 100, 53, 113, 83, 55, 53, 118, 113, 75,
    49, 121, 113, 110, 75, 109, 69, 90, 81, 122, 68, 121, 110, 99, 81, 113,
    106, 52>>
AddrChangePayload ==
    <<111, 222, 21, 93, 87, 15, 145, 193, 139, 201, 42, 47, 174, 203, 239,
    32, 253, 0, 252, 167, 180, 252, 103, 3, 47>>
AddrG == 
    <<109, 114, 67, 68, 114, 67, 121, 98, 66, 54, 74, 49, 118, 82, 102, 98,
    119, 77, 53, 104, 101, 109, 100, 74, 122, 55, 51, 70, 119, 68, 66, 67,
    56, 114>>
AddrGPayload ==
    <<111, 117, 30, 118, 232, 25, 145, 150, 212, 84, 148, 28, 69, 209, 179,
    163, 35, 241, 67, 59, 214, 85, 196, 132, 227>>

KnownPayloads == {AddrBookPayload, AddrChangePayload, AddrGPayload}

\* &sha256d::Hash::hash(version ++ h160)[..4]
Sha256dChecksum(data) ==
    IF \E p \in KnownPayloads : SubSeq(p, 1, 21) = data
    THEN LET p == CHOOSE q \in KnownPayloads : SubSeq(q, 1, 21) = data
         IN SubSeq(p, 22, 25)
    ELSE <<0, 0, 0, 0>>

\* the Bech32 address of the version-0 witness program Hash160G
WitnessAddrG == 
    <<116, 98, 49, 113, 119, 53, 48, 56, 100, 54, 113, 101, 106, 120, 116,
    100, 103, 52, 121, 53, 114, 51, 122, 97, 114, 118, 97, 114, 121, 48, 99,
    53, 120, 119, 55, 107, 120, 112, 106, 122, 115, 120>>

\* WitnessProgram::from_address("tb", address): Ok exactly for a valid
\* testnet witness address
WitnessFromAddress(addr) ==
    IF addr = WitnessAddrG
    THEN [ok |-> TRUE, version |-> 0, program |-> Hash160G]
    ELSE [ok |-> FALSE, version |-> 0, program |-> <<>>]

\* WitnessProgram{version: 0, program}.to_address("tb")
WitnessToAddress(program) == IF program = Hash160G THEN WitnessAddrG ELSE <<>>

\* WitnessProgram::to_scriptpubkey
WitnessScriptPubkey(w) == <<w.version, Len(w.program)>> \o w.program

is_string_bech32(addr) == WitnessFromAddress(addr).ok

is_array_bech32(addr) == is_string_bech32(addr)

VersionPrefix == 111

address_from_pubkey(public_key, p2wpkh) ==
    LET h160 == Hash160(public_key)
    IN IF p2wpkh
       THEN WitnessToAddress(h160)
       ELSE LET checksum == Sha256dChecksum(<<VersionPrefix>> \o h160)
            IN bs58_encode(<<VersionPrefix>> \o h160 \o checksum)

\* combined[1..combined.len() - 4]: a panic when the range is not a range of
\* the vector (len < 4 underflows, len = 4 ends before it starts)
decode_base58(addr) ==
    LET r == bs58_decode(addr)
        n == Len(r.bytes)
    IN IF r.ok
       THEN IF n - 4 < 1
            THEN [panic |-> TRUE, h160 |-> <<>>]
            ELSE [panic |-> FALSE, h160 |-> SubSeq(r.bytes, 2, n - 4)]
       ELSE [panic |-> FALSE, h160 |-> <<>>]

\* Script::new(Some(elements)).as_bytes(): a one-byte element is an opcode,
\* a longer one is pushed behind its length
RECURSIVE ScriptAsBytes(_)
ScriptAsBytes(elements) ==
    IF elements = <<>> THEN <<>>
    ELSE LET e == Head(elements)
         IN (IF Len(e) = 1 THEN e ELSE <<Len(e)>> \o e)
            \o ScriptAsBytes(Tail(elements))

pk_script_from_address(addr, p2wpkh) ==
    IF p2wpkh /\ WitnessFromAddress(addr).ok
    THEN [panic |-> FALSE, script |-> WitnessScriptPubkey(WitnessFromAddress(addr))]
    ELSE LET d == decode_base58(addr)
         IN IF d.panic
            THEN [panic |-> TRUE, script |-> <<>>]
            ELSE [panic |-> FALSE,
                  script |-> ScriptAsBytes(<<<<118>>, <<169>>, d.h160, <<136>>, <<172>>>>)]

pk_script_from_pubkey(public_key, p2wpkh) ==
    pk_script_from_address(address_from_pubkey(public_key, p2wpkh), p2wpkh)

----------------------------------------------------------------------------
(* One call of decode_base58 on address bytes *)

MaxAddrLen == 3

\* '1' (digit 0), '2', 'z' (digit 57), and '0', 'l': not in the alphabet
AddrChars == {49, 50, 122, 48, 108}

ShortAddresses == UNION { [1..n -> AddrChars] : n \in 0..MaxAddrLen }

\* AddrBook with its last character changed (checksum no longer matches),
\* and with its last two characters cut (a 24-byte payload)
AddrBadChecksum == [AddrBook EXCEPT ![Len(AddrBook)] = 51]
AddrTruncated == SubSeq(AddrBook, 1, Len(AddrBook) - 2)
\* five characters that decode to five bytes, and six 'z'
AddrFiveBytes == <<49, 49, 49, 49, 50>>
AddrSixZ == <<122, 122, 122, 122, 122, 122>>

CodecAddresses ==
    ShortAddresses \cup {AddrBook, AddrChange, AddrG, WitnessAddrG,
                         AddrBadChecksum, AddrTruncated, AddrFiveBytes, AddrSixZ}

CodecOff ==
    /\ cpc = "off"
    /\ address = <<>>
    /\ decoded = <<>>

CodecInit ==
    /\ cpc = "call"
    /\ address \in CodecAddresses
    /\ decoded = <<>>

DecodeReturn ==
    /\ cpc = "call"
    /\ ~decode_base58(address).panic
    /\ decoded' = decode_base58(address).h160
    /\ cpc' = "returned"
    /\ UNCHANGED <<address, pipeVars, txVars>>

DecodePanic ==
    /\ cpc = "call"
    /\ decode_base58(address).panic
    /\ cpc' = "panicked"
    /\ UNCHANGED <<address, decoded, pipeVars, txVars>>

CodecNext == DecodeReturn \/ DecodePanic

----------------------------------------------------------------------------
(* secp256k1: SecretKey::from_slice and PublicKey::from_secret_key *)

\* the order of the secp256k1 group, big-endian
CurveOrder ==
    <<255, 255, 255, 255, 255, 255, 255, 255, 255, 255, 255, 255, 255, 255,
    255, 254, 186, 174, 220, 230, 175, 72, 160, 59, 191, 210, 94, 140, 208,
    54, 65, 65>>

RECURSIVE BytesLess(_, _)
BytesLess(a, b) ==
    IF a = <<>> \/ b = <<>> THEN FALSE
    ELSE IF Head(a) # Head(b) THEN Head(a) < Head(b)
    ELSE BytesLess(Tail(a), Tail(b))

\* Ok for 32 bytes that are a scalar in 1 .. order - 1
SecretKeyValid(bytes) ==
    /\ Len(bytes) = 32
    /\ bytes # Repeat(0, 32)
    /\ BytesLess(bytes, CurveOrder)

KeyOne == Repeat(0, 31) \o <<1>>
KeyZero == Repeat(0, 32)
KeyShort == Repeat(0, 30) \o <<1>>
KeyOverOrder == Repeat(255, 32)

\* PublicKey::from_secret_key(..).serialize(): 1 * G is the generator
PublicKeyFromSecret(bytes) == IF bytes = KeyOne THEN PubKeyG ELSE <<>>

----------------------------------------------------------------------------
(* block_mod, outside src/: the constructors of TxOut, TxIn, Transaction *)

TxOutNew(value, script) == [value |-> value, pk_script |-> script]

TxInNew(prev_tx, prev_index, script, sequence) ==
    [prev_tx |-> prev_tx, prev_index |-> prev_index,
     signature_script |-> script, sequence |-> sequence]

TransactionNew(version, tx_in, tx_out, lock_time) ==
    [version |-> version, tx_in |-> tx_in, tx_out |-> tx_out,
     lock_time |-> lock_time, witness |-> <<>>]

\* 0xffffffff
SequenceFinal == "ffffffff"

NoTransaction == [version |-> 0, tx_in |-> <<>>, tx_out |-> <<>>,
                  lock_time |-> 0, witness |-> <<>>]

----------------------------------------------------------------------------
(* The addresses and keys a call is made with, and the scripts of each,
   computed once *)

\* a legacy address, a witness address, and "1": one byte once decoded
AddrOneByte == <<49>>
TargetAddresses == {AddrBook, WitnessAddrG, AddrOneByte}

PrivateKeys == {KeyOne, KeyZero, KeyShort, KeyOverOrder}

\* pk_script_from_address(&address, is_array_bech32(&address)) of a target
TargetScript ==
    [a \in TargetAddresses |-> pk_script_from_address(a, is_array_bech32(a))]

\* pk_script_from_pubkey(&public_key, p2wpkh) of a valid private key
SenderScript ==
    [k \in {x \in PrivateKeys : SecretKeyValid(x)}, w \in BOOLEAN |->
        pk_script_from_pubkey(PublicKeyFromSecret(k), w).script]

----------------------------------------------------------------------------
(* create_txout_list and create_txin_list *)

\* the for loop over targets; a target address that makes decode_base58
\* panic aborts the call
RECURSIVE TxoutLoop(_, _, _)
TxoutLoop(targets, list, total) ==
    IF targets = <<>>
    THEN [panic |-> FALSE, txout_list |-> list, total_amount |-> total]
    ELSE LET addr == Head(targets)[1]
             amount == Head(targets)[2]
             script == TargetScript[addr]
         IN IF script.panic
            THEN [panic |-> TRUE, txout_list |-> list, total_amount |-> total]
            ELSE TxoutLoop(Tail(targets),
                           Append(list, TxOutNew(amount, script.script)),
                           total + amount)

create_txout_list(targets, fee) == TxoutLoop(targets, <<>>, fee)

\* while acum_amount < total_amount: pop from the back of utxo
RECURSIVE TxinLoop(_, _, _, _, _)
TxinLoop(pool, txins, amounts, acum_amount, total) ==
    IF acum_amount < total
    THEN IF pool # <<>>
         THEN LET txout == pool[Len(pool)]
              IN TxinLoop(SubSeq(pool, 1, Len(pool) - 1),
                          Append(txins, TxInNew(txout[1], txout[2], <<>>, SequenceFinal)),
                          Append(amounts, txout[3].value),
                          acum_amount + txout[3].value,
                          total)
         ELSE [ok |-> FALSE, txin_list |-> <<>>, amount_list |-> <<>>]
    ELSE [ok |-> TRUE, txin_list |-> txins,
          amount_list |-> Append(amounts, acum_amount - total)]

\* mutant: candidates are taken from the front of the list
create_txin_list_FromFront(pool, total) ==
    TxinLoop(Reverse(pool), <<>>, <<>>, 0, total)

\* mutant: an exhausted pool returns what was taken instead of the error
create_txin_list_Partial(pool, total) ==
    LET r == TxinLoop(pool, <<>>, <<>>, 0, total)
    IN IF r.ok THEN r
       ELSE [ok |-> TRUE,
             txin_list |-> [i \in DOMAIN pool |->
                              TxInNew(pool[Len(pool) + 1 - i][1],
                                      pool[Len(pool) + 1 - i][2], <<>>, SequenceFinal)],
             amount_list |-> [i \in 1..(Len(pool) + 1) |->
                                IF i <= Len(pool)
                                THEN pool[Len(pool) + 1 - i][3].value
                                ELSE 0]]

create_txin_list(pool, total) == TxinLoop(pool, <<>>, <<>>, 0, total)

----------------------------------------------------------------------------
(* One call of create_transaction.  Amounts stay far from the i64 limits. *)

MaxTargets == 2
MaxPool == 3

Fees == {-1, 0, 1}
PoolValues == {0, 1, 2}

\* (destination, amount): amounts are i64, a negative one included
TargetChoices == {<<AddrBook, 1>>, <<WitnessAddrG, 2>>, <<AddrBook, -1>>,
                  <<AddrOneByte, 1>>}

TargetLists == UNION { [1..n -> TargetChoices] : n \in 0..MaxTargets }

\* the i-th candidate: (txid, index, TxOut)
PoolOf(values) ==
    [i \in DOMAIN values |-> <<<<i>>, 0, TxOutNew(values[i], <<>>)>>]

Pools == { PoolOf(v) : v \in UNION { [1..n -> PoolValues] : n \in 0..MaxPool } }

TxOff ==
    /\ tpc = "off"
    /\ call = [targets |-> <<>>, utxo |-> <<>>, private_key |-> <<>>,
               fee |-> 0, p2wpkh |-> FALSE]
    /\ pk_script = <<>>
    /\ txout_list = <<>>
    /\ total_amount = 0
    /\ txin_list = <<>>
    /\ amount_list = <<>>
    /\ transaction = NoTransaction
    /\ result = "none"

TxInit ==
    /\ tpc = "call"
    /\ call \in [targets : TargetLists, utxo : Pools, private_key : PrivateKeys,
                 fee : Fees, p2wpkh : BOOLEAN]
    /\ pk_script = <<>>
    /\ txout_list = <<>>
    /\ total_amount = 0
    /\ txin_list = <<>>
    /\ amount_list = <<>>
    /\ transaction = NoTransaction
    /\ result = "none"

\* mutant: the key is looked at after the selector has run
TxKeyErr_SelectorFirst ==
    /\ tpc = "call"
    /\ ~SecretKeyValid(call.private_key)
    /\ result' = IF create_txin_list(call.utxo,
                        create_txout_list(call.targets, call.fee).total_amount).ok
                 THEN "PrivateKey"
                 ELSE "InsufficientFounds"
    /\ tpc' = "returned"
    /\ UNCHANGED <<call, pk_script, txout_list, total_amount, txin_list,
                   amount_list, transaction, pipeVars, codecVars>>

\* SecretKey::from_slice(private_key) is Err: map_err and `?` return
TxKeyErr ==
    /\ tpc = "call"
    /\ ~SecretKeyValid(call.private_key)
    /\ result' = "PrivateKey"
    /\ tpc' = "returned"
    /\ UNCHANGED <<call, pk_script, txout_list, total_amount, txin_list,
                   amount_list, transaction, pipeVars, codecVars>>

\* the key is valid: public_key and pk_script are derived
TxKeyOk ==
    /\ tpc = "call"
    /\ SecretKeyValid(call.private_key)
    /\ pk_script' = SenderScript[call.private_key, call.p2wpkh]
    /\ tpc' = "txout"
    /\ UNCHANGED <<call, txout_list, total_amount, txin_list, amount_list,
                   transaction, result, pipeVars, codecVars>>

\* let (mut txout_list, total_amount) = create_txout_list(targets, fee)
TxCreateTxoutList ==
    /\ tpc = "txout"
    /\ LET r == create_txout_list(call.targets, call.fee)
       IN /\ ~r.panic
          /\ txout_list' = r.txout_list
          /\ total_amount' = r.total_amount
    /\ tpc' = "txin"
    /\ UNCHANGED <<call, pk_script, txin_list, amount_list, transaction,
                   result, pipeVars, codecVars>>

\* create_txout_list unwinds out of decode_base58
TxCreateTxoutPanic ==
    /\ tpc = "txout"
    /\ create_txout_list(call.targets, call.fee).panic
    /\ tpc' = "panicked"
    /\ UNCHANGED <<call, pk_script, txout_list, total_amount, txin_list,
                   amount_list, transaction, result, pipeVars, codecVars>>

\* let (txin_list, amount_list) = create_txin_list(utxo, total_amount)?
TxCreateTxinOk ==
    /\ tpc = "txin"
    /\ LET r == create_txin_list(call.utxo, total_amount)
       IN /\ r.ok
          /\ txin_list' = r.txin_list
          /\ amount_list' = r.amount_list
    /\ tpc' = "change"
    /\ UNCHANGED <<call, pk_script, txout_list, total_amount, transaction,
                   result, pipeVars, codecVars>>

\* create_txin_list is Err(InsufficientFounds): `?` returns it
TxCreateTxinErr ==
    /\ tpc = "txin"
    /\ ~create_txin_list(call.utxo, total_amount).ok
    /\ result' = "InsufficientFounds"
    /\ tpc' = "returned"
    /\ UNCHANGED <<call, pk_script, txout_list, total_amount, txin_list,
                   amount_list, transaction, pipeVars, codecVars>>

\* mutant: a change of zero gets no output
TxPushChange_SkipZero ==
    /\ tpc = "change"
    /\ LET outs == IF amount_list # <<>> /\ amount_list[Len(amount_list)] # 0
                   THEN Append(txout_list,
                               TxOutNew(amount_list[Len(amount_list)], pk_script))
                   ELSE txout_list
       IN /\ txout_list' = outs
          /\ transaction' = TransactionNew(1, txin_list, outs, 0)
    /\ tpc' = "sign"
    /\ UNCHANGED <<call, pk_script, total_amount, txin_list, amount_list,
                   result, pipeVars, codecVars>>

\* if let Some(change) = amount_list.last(): the change output is pushed;
\* then Transaction::new(1, txin_list, txout_list, 0)
TxPushChange ==
    /\ tpc = "change"
    /\ LET outs == IF amount_list # <<>>
                   THEN Append(txout_list,
                               TxOutNew(amount_list[Len(amount_list)], pk_script))
                   ELSE txout_list
       IN /\ txout_list' = outs
          /\ transaction' = TransactionNew(1, txin_list, outs, 0)
    /\ tpc' = "sign"
    /\ UNCHANGED <<call, pk_script, total_amount, txin_list, amount_list,
                   result, pipeVars, codecVars>>

\* the signature of input i: the sighash is the p2wpkh one, over
\* amount_list, or the p2pkh one
SignatureOf(i, p2wpkh) ==
    IF p2wpkh THEN <<"sig", "p2wpkh", i, amount_list>> ELSE <<"sig", "p2pkh", i>>

\* sign_transaction: one pass of its for loop, for the next unsigned input
TxSignInput ==
    /\ tpc = "sign"
    /\ \E i \in DOMAIN transaction.tx_in :
          /\ i = (IF call.p2wpkh
                  THEN Len(transaction.witness)
                  ELSE Cardinality({j \in DOMAIN transaction.tx_in :
                            transaction.tx_in[j].signature_script # <<>>})) + 1
          /\ transaction' =
                IF call.p2wpkh
                THEN [transaction EXCEPT
                        !.witness = Append(@, SignatureOf(i, TRUE))]
                ELSE [transaction EXCEPT
                        !.tx_in[i].signature_script = SignatureOf(i, FALSE)]
    /\ UNCHANGED <<tpc, call, pk_script, txout_list, total_amount, txin_list,
                   amount_list, result, pipeVars, codecVars>>

SignedInputs ==
    IF call.p2wpkh
    THEN Len(transaction.witness)
    ELSE Cardinality({j \in DOMAIN transaction.tx_in :
                         transaction.tx_in[j].signature_script # <<>>})

\* the loop is over: Ok(transaction)
TxReturnOk ==
    /\ tpc = "sign"
    /\ SignedInputs = Len(transaction.tx_in)
    /\ result' = "Ok"
    /\ tpc' = "returned"
    /\ UNCHANGED <<call, pk_script, txout_list, total_amount, txin_list,
                   amount_list, transaction, pipeVars, codecVars>>

TxNext ==
    \/ TxKeyErr
    \/ TxKeyOk
    \/ TxCreateTxoutList
    \/ TxCreateTxoutPanic
    \/ TxCreateTxinOk
    \/ TxCreateTxinErr
    \/ TxPushChange
    \/ TxSignInput
    \/ TxReturnOk

----------------------------------------------------------------------------

PipeInit ==
    /\ chan = <<>>
    /\ sent = <<>>
    /\ senderAlive = TRUE
    /\ wpc = "recv"
    /\ block = NoBlock
    /\ owner = [l \in Locks |-> NoOwner]
    /\ poisoned = [l \in Locks |-> FALSE]
    /\ utxo0 \in {{}, {0}}
    /\ chain0 = IF utxo0 = {} THEN <<>> ELSE <<GenesisBlock>>
    /\ utxo = utxo0
    /\ blockchain = chain0
    /\ progress = <<>>
    /\ skipped = <<>>
    /\ applied = <<>>
    /\ rpc = [r \in Readers |-> "idle"]

PipeNext ==
    \/ Send
    \/ Close
    \/ WorkerNext
    \/ \E r \in Readers : ReaderNext(r)

PipeOff ==
    /\ PipeInit
    /\ utxo0 = {}

Init == PipeInit /\ CodecOff /\ TxOff

Next == PipeNext

Spec == Init /\ [][Next]_vars

(* A thread blocked in Mutex::lock is granted a mutex that keeps being
   released; a reader that holds a guard and does not panic drops it. *)
Fairness ==
    /\ WF_vars(WorkerStep)
    /\ SF_vars(WorkerLock)
    /\ \A r \in Readers : WF_vars(ReaderRelease(r))
    /\ \A r \in Readers : SF_vars(ReaderLockBothSecond(r))

FairSpec == Init /\ [][Next]_vars /\ Fairness

CodecSpecInit == PipeOff /\ CodecInit /\ TxOff

CodecSpec == CodecSpecInit /\ [][CodecNext]_vars

TxSpecInit == PipeOff /\ CodecOff /\ TxInit

TxSpec == TxSpecInit /\ [][TxNext]_vars

----------------------------------------------------------------------------
(* Properties of the ingestion pipeline *)

\* blocks the worker has taken off the channel
Received == SubSeq(sent, 1, Len(sent) - Len(chan))

HoldsLock(t) == \E l \in Locks : owner[l] = t

\* C1 (ingestion ordering): once the worker has drained the closed channel
\* and no lock() failed, the ledger is the initial ledger followed by exactly
\* the sent blocks in order (so it grew by N), update was called once per
\* block in that order, and the UTXO index is the fold of update over them.
C1_IngestionOrdering ==
    (wpc = "done" /\ skipped = <<>>) =>
        /\ blockchain = chain0 \o sent
        /\ cant_blocks(blockchain) = cant_blocks(chain0) + Len(sent)
        /\ applied = sent
        /\ utxo = ApplyAll(utxo0, sent)

C1_Witness ==
    /\ wpc = "done"
    /\ skipped = <<>>
    /\ Len(sent) >= 2
    /\ utxo # utxo0
    /\ \E r \in Readers : rpc[r] # "idle"

\* C2 (worker termination): the worker is done only when every Sender is
\* dropped, the buffer is empty and every sent block was received; and once
\* the channel is closed the worker eventually is done.
C2_WorkerTermination ==
    /\ [](wpc = "done" =>
            /\ ~senderAlive
            /\ chan = <<>>
            /\ Len(applied) + Len(skipped) = Len(sent))
    /\ ((~senderAlive) ~> (wpc = "done"))

C2_Witness ==
    /\ wpc = "done"
    /\ Len(sent) >= 2
    /\ applied # <<>>

\* C3 (skip on lock failure): a block whose iteration met a poisoned mutex
\* is neither applied to the UTXO index nor appended to the ledger; between
\* iterations the blocks applied are exactly the blocks appended and every
\* received block was either handled or skipped; the worker holds no guard
\* when it goes back to recv, and a skip never ends the loop early.
C3_SkipOnLockFailure ==
    /\ \A i \in DOMAIN skipped :
          /\ skipped[i] \notin Range(applied)
          /\ skipped[i] \notin Range(blockchain)
    /\ wpc \in {"recv", "done"} =>
          /\ blockchain = chain0 \o applied
          /\ utxo = ApplyAll(utxo0, applied)
          /\ Range(applied) \cup Range(skipped) = Range(Received)
          /\ Len(applied) + Len(skipped) = Len(Received)
          /\ ~HoldsLock(Worker)
    /\ wpc = "done" => (chan = <<>> /\ ~senderAlive)

C3_Witness ==
    /\ wpc = "done"
    /\ applied # <<>>
    /\ Len(skipped) >= 2
    /\ poisoned["blockchain"]
    /\ ~poisoned["utxo"]

\* a thread that holds a mutex can take a step other than a panic
CanStep(t) ==
    IF t = Worker
    THEN ENABLED WorkerNext
    ELSE ENABLED (ReaderAcquire(t) \/ ReaderRelease(t))

LockOrderInv ==
    /\ owner["blockchain"] = Worker => owner["utxo"] = Worker
    /\ wpc = "lock_outer" => ~HoldsLock(Worker)
    /\ wpc = "lock_inner" => (owner["utxo"] = Worker /\ owner["blockchain"] # Worker)

NoDeadlock ==
    (\E l \in Locks : owner[l] # NoOwner) =>
        \E l \in Locks : owner[l] # NoOwner /\ CanStep(owner[l])

\* C4 (lock order, deadlock freedom): the worker takes the UTXO mutex before
\* the ledger mutex and never asks for the UTXO mutex while holding the
\* ledger mutex; with readers that lock in the same order, whenever a mutex
\* is held some holder can step; every received block's iteration ends.
C4_LockOrderNoDeadlock ==
    /\ [](LockOrderInv /\ NoDeadlock)
    /\ ((wpc \notin {"recv", "done"}) ~> (wpc = "recv"))

C4_Witness ==
    /\ wpc = "lock_inner"
    /\ \E r \in Readers : rpc[r] = "hold_ledger"
    /\ \E r \in Readers : rpc[r] = "idle"
    /\ applied # <<>>

----------------------------------------------------------------------------
(* Properties of create_transaction and the selector *)

RECURSIVE SumSeq(_)
SumSeq(q) == IF q = <<>> THEN 0 ELSE Head(q) + SumSeq(Tail(q))

TargetAmountsOf(targets) == [i \in DOMAIN targets |-> targets[i][2]]

PoolValuesOf(pool) == [i \in DOMAIN pool |-> pool[i][3].value]

\* R: the fee plus the target amounts; V: the value of the whole pool
Required == call.fee + SumSeq(TargetAmountsOf(call.targets))
PoolTotal == SumSeq(PoolValuesOf(call.utxo))

\* the values of the last m candidates, back to front
BackValues(m) ==
    [j \in 1..m |-> call.utxo[Len(call.utxo) + 1 - j][3].value]

\* create_txin_list has been called and has returned
SelectorReturned ==
    \/ tpc \in {"change", "sign"}
    \/ tpc = "returned" /\ result \in {"Ok", "InsufficientFounds"}

\* the value of the candidate an input spends
InputValue(txin) ==
    LET e == CHOOSE x \in Range(call.utxo) :
                 x[1] = txin.prev_tx /\ x[2] = txin.prev_index
    IN e[3].value

SelectedSum(txins) == SumSeq([j \in DOMAIN txins |-> InputValue(txins[j])])

\* C5 (selector exactness): called with R <= V the selector succeeds; its k
\* inputs are the last k candidates, back to front, k the least count whose
\* running sum from the back reaches R; the amount list is their k values
\* followed by the change A - R, with A >= R.
C5_SelectorExactness ==
    (SelectorReturned /\ Required <= PoolTotal) =>
        /\ result # "InsufficientFounds"
        /\ LET k == Len(txin_list)
               n == Len(call.utxo)
           IN /\ k <= n
              /\ Len(amount_list) = k + 1
              /\ \A j \in 1..k :
                    /\ txin_list[j] = TxInNew(call.utxo[n + 1 - j][1],
                                              call.utxo[n + 1 - j][2],
                                              <<>>, SequenceFinal)
                    /\ amount_list[j] = call.utxo[n + 1 - j][3].value
              /\ SumSeq(BackValues(k)) >= Required
              /\ \A m \in 0..(k - 1) : SumSeq(BackValues(m)) < Required
              /\ amount_list[k + 1] = SumSeq(BackValues(k)) - Required

C5_Witness ==
    /\ tpc = "returned"
    /\ result = "Ok"
    /\ Len(call.utxo) = 3
    /\ Len(txin_list) = 2
    /\ amount_list[3] = 1
    /\ call.utxo[1][3].value = 2

\* C6 (selector exhaustion): called with R above the value of the whole
\* pool the selector fails, create_transaction returns InsufficientFounds
\* with no transaction, no inputs and no amounts; an Ok transaction never
\* spends less than R, and a call that is not Ok leaves no transaction.
C6_SelectorExhaustion ==
    /\ (tpc \in {"change", "sign", "returned"} /\ result # "PrivateKey"
            /\ Required > PoolTotal) =>
          /\ tpc = "returned"
          /\ result = "InsufficientFounds"
          /\ transaction = NoTransaction
          /\ txin_list = <<>>
          /\ amount_list = <<>>
    /\ result = "Ok" => SelectedSum(transaction.tx_in) >= Required
    /\ (tpc \in {"returned", "panicked"} /\ result # "Ok") =>
          transaction = NoTransaction

C6_Witness ==
    /\ tpc = "returned"
    /\ result = "InsufficientFounds"
    /\ Len(call.utxo) = 2
    /\ PoolTotal = 3
    /\ Required = 4

\* C7 (value conservation, change output): an Ok transaction has one output
\* per target, in order, then one change output locked to the sender's
\* script, also when the change is zero; the change is the selected value
\* minus the target amounts minus the fee, so targets + fee <= inputs and
\* outputs + fee = inputs.
C7_ValueConservation ==
    result = "Ok" =>
        LET outs == transaction.tx_out
            n == Len(call.targets)
            ins == SelectedSum(transaction.tx_in)
            targetSum == SumSeq(TargetAmountsOf(call.targets))
        IN /\ Len(outs) = n + 1
           /\ \A i \in 1..n :
                 /\ outs[i].value = call.targets[i][2]
                 /\ outs[i].pk_script = TargetScript[call.targets[i][1]].script
           /\ outs[n + 1].pk_script = SenderScript[call.private_key, call.p2wpkh]
           /\ Len(outs[n + 1].pk_script) > 20
           /\ outs[n + 1].value = ins - targetSum - call.fee
           /\ targetSum + call.fee <= ins
           /\ SumSeq([i \in DOMAIN outs |-> outs[i].value]) + call.fee = ins

C7_Witness ==
    /\ result = "Ok"
    /\ Len(call.targets) = 2
    /\ Len(transaction.tx_in) = 2
    /\ transaction.tx_out[3].value = 0
    /\ call.targets[1][1] # call.targets[2][1]

\* C8 (private key checked first): with key bytes that are no valid secret
\* key, create_transaction returns PrivateKey and builds no output, selects
\* no input, assembles and signs nothing, also when the pool is too small;
\* every later step runs with a valid key only.
C8_PrivateKeyFirst ==
    /\ ~SecretKeyValid(call.private_key) =>
          /\ tpc \in {"off", "call", "returned"}
          /\ tpc = "returned" => result = "PrivateKey"
          /\ pk_script = <<>>
          /\ txout_list = <<>>
          /\ txin_list = <<>>
          /\ amount_list = <<>>
          /\ transaction = NoTransaction
    /\ result = "PrivateKey" => ~SecretKeyValid(call.private_key)

C8_Witness ==
    /\ tpc = "returned"
    /\ result = "PrivateKey"
    /\ Required > PoolTotal
    /\ Len(call.targets) = 2
    /\ call.private_key = KeyOverOrder

\* C10 (at least one input), as claimed: every Ok transaction spends at
\* least one input, whatever the targets and the fee.
C10_SpendsAnInput ==
    result = "Ok" => Len(transaction.tx_in) >= 1

----------------------------------------------------------------------------
(* Properties of decode_base58 *)

\* the Base58Check payload of the address is well-formed: Base58 text,
\* 25 bytes, the last 4 the checksum of the first 21
WellFormed(addr) ==
    LET r == bs58_decode(addr)
    IN /\ r.ok
       /\ Len(r.bytes) = 25
       /\ Sha256dChecksum(SubSeq(r.bytes, 1, 21)) = SubSeq(r.bytes, 22, 25)

\* C9 (malformed address decodes to an empty hash), as claimed: the call
\* never aborts; a malformed payload gives the empty hash; a well-formed one
\* gives its 20 bytes between the version byte and the checksum.
C9_MalformedDecodesEmpty ==
    /\ cpc # "panicked"
    /\ cpc = "returned" =>
          IF WellFormed(address)
          THEN decoded = SubSeq(bs58_decode(address).bytes, 2, 21)
          ELSE decoded = <<>>

====
